---------------------------- MODULE Spec2Model ----------------------------
(***************************************************************************)
(* A model of the telegram-automation repository.                          *)
(*                                                                         *)
(*   HistSpec  TelegramHistoryScraper.scrape_channel_history with its      *)
(*             checkpoint file, interrupted and restarted                  *)
(*             (src/telegram_history_scraper.py).                          *)
(*   ArchSpec  TelegramMusicArchiver.run_automation: the scan of           *)
(*             process_channel_history, process_batch with its download    *)
(*             workers, and the per track pipeline organize, upload,       *)
(*             sync, forward (src/complete_automation_system.py).          *)
(*                                                                         *)
(* The two programs share no state: each specification holds the other     *)
(* program's variables at their idle value.                                *)
(***************************************************************************)
EXTENDS Integers, Sequences, FiniteSets, TLC

(***************************************************************************)
(* Bounds of the model.                                                    *)
(***************************************************************************)
\* messages in the channel scanned by the history scraper, ids 1..NumHistMsgs
NumHistMsgs == 3
\* largest configured BATCH_SIZE of the history scraper
MaxHistBatch == 2
\* executions of scrape_channel_history over the same output directory
MaxRuns == 2
\* channels the history scraper is asked to scan, 1..NumChannels
NumChannels == 2
\* the clock runs from 0 to MaxClock ticks
MaxClock == 2
\* ticks of the clock in one second, the resolution of '%Y%m%d_%H%M%S'
TicksPerSecond == 2
\* longest artist, album, year and title handed to organize_file_path
MaxNameLen == 1
\* most words of an artist or album name in a parsed message text
MaxWords == 2
\* most numbered track lines in a parsed message text
MaxTracks == 2
\* messages in the channel the archiver scans, ids 1..NumMsgs
NumMsgs == 3
\* largest configured batch_size of the archiver
MaxBatch == 2
\* FloodWaitErrors the message iterator raises during one automation run
MaxFloods == 1
\* FloodWaitErrors initialize_clients raises during one automation run
MaxInitFloods == 1
\* downloads, file moves and sink calls that fail during one automation run
MaxPoolBatch == 3

\* max_workers of the ThreadPoolExecutor: MAX_CONCURRENT_DOWNLOADS, default '3'
MAX_CONCURRENT_DOWNLOADS == 3

MaxFailures == 1

(***************************************************************************)
(* Program constants.                                                      *)
(***************************************************************************)
\* HistoryConfig.MAX_MESSAGES
MAX_MESSAGES == 10000

VARIABLES
    \* ---- history scraper -------------------------------------------------
    h_channel,          \* channel_username: the channel this execution scans
    h_audio,            \* the ids of a channel's messages that carry audio
    h_config,           \* HistoryConfig: RESUME_FROM_CHECKPOINT, BATCH_SIZE,
                        \* START_DATE, END_DATE
    checkpoint_file,    \* OUTPUT_DIR/CHECKPOINT_FILE: <<>> or <<checkpoint>>
    batch_files,        \* batch_NNNN files of the channel directory
    hpc,                \* position of scrape_channel_history
    start_from_id,      \* min_id handed to iter_messages
    h_iterator,         \* messages the iterator has still to yield
    h_processed_count,  \* processed_count
    last_message_id,    \* last_message_id, 0 for None
    batch_posts,        \* batch_posts
    batch_count,        \* batch_count
    all_posts,          \* all_posts
    \* history of the runs, read by the properties only
    h_run,              \* number of the current execution
    h_start_checkpoint, \* checkpoint_file as it was when this run started
    h_start_count,      \* processed_count this run started with
    h_seen,             \* ids the iterator yielded in this run
    h_collected_before, \* channel -> ids collected by earlier runs
    h_prev_end,         \* how the previous run ended
    h_script,           \* this execution was started by one of the run scripts
    h_clock,            \* datetime.now() when this execution was started
    h_output_dir,       \* config.OUTPUT_DIR of this execution
    h_dirs,             \* the files of the output directories not in use
    h_prev_checkpoint,  \* the checkpoint file the script's previous run left
    \* ---- archiver --------------------------------------------------------
    a_channel,          \* the source channel: message id -> message
    a_config,           \* self.config and the clients that are set up
    apc,                \* position of run_automation
    db_open,            \* self.db_connection is open
    executor_up,        \* self.executor accepts new tasks
    music_tracks,       \* the rows of table music_tracks
    raw_files,          \* file ids with a file downloads/raw/<file_id>.mp3
    drive_files,        \* files created in Google Drive, by file id
    airtable_records,   \* records created in Airtable, by file id
    sheet_rows,         \* rows appended to the Google Sheet, by file id
    forwarded_messages, \* messages forwarded to the private channel
    stats,              \* self.stats
    spc,                \* position of process_channel_history
    a_iterator,         \* ids the message iterator has still to yield
    processed_count,    \* processed_count of process_channel_history
    batch,              \* batch: the MusicTrack objects collected
    bpc,                \* position of process_batch
    tasks,              \* download_tasks: state of each future
    cur,                \* index of the track process_downloaded_track handles
    floods,             \* FloodWaitErrors raised by the iterator so far
    init_floods,        \* FloodWaitErrors raised by initialize_clients so far
    failures,           \* failed downloads, moves and sink calls so far
    \* history, read by the properties only
    passed,             \* message ids handed to process_batch in this scan
    last_write,         \* file id -> the row of the last write carried out
    scans,              \* message id -> times the loop body handled it
    flood_at,           \* message being fetched when the last flood came
    a_event,            \* the last step taken and how it ended
    \* ---- organize_file_path ---------------------------------------------
    p_track,            \* the MusicTrack and create_side_folders handed in
    p_path,             \* the segments of the path returned, below 'organized'
    p_pc,               \* position: "call" before, "done" after the call
    \* ---- _parse_album_info_advanced -------------------------------------
    q_input,            \* the artist, album, year and tracks the text is built of
    q_text,             \* text: its lines, each a sequence of words
    q_info,             \* album_info returned
    q_pc,               \* position: "call" before, "done" after the call
    \* ---- the metadata of one track on its way through the pipeline -------
    m_message,          \* what the message text, the audio attribute of the
                        \* message and the tags of the file hold
    m_track,            \* the MusicTrack object: title, artist, album, side
    m_row,              \* the row of the track in the store
    m_pc,               \* position: "extract", "organize", "done"
    \* ---- the download workers of one process_batch call ------------------
    w_batch,            \* the file_id of each track of the batch
    w_pc,               \* position of the download task of each track
    w_reg,              \* the value of the counter each task has read
    w_raw,              \* file ids whose raw file exists
    w_rows,             \* processing_status stored for each file id
    w_stats,            \* self.stats
    w_fresh,            \* downloads that ended with success (history)
    w_failed,           \* downloads that failed (history)
    d_cur               \* the task whose track the driver organizes, or 0

histVars == <<h_channel, h_audio, h_config, checkpoint_file, batch_files, hpc,
              start_from_id, h_iterator, h_processed_count, last_message_id,
              batch_posts, batch_count, all_posts, h_run, h_start_checkpoint,
              h_start_count, h_seen, h_collected_before, h_prev_end, h_script,
              h_clock, h_output_dir, h_dirs, h_prev_checkpoint>>

dirVars == <<h_script, h_clock, h_output_dir, h_dirs, h_prev_checkpoint>>

archVars == <<a_channel, a_config, apc, db_open, executor_up, music_tracks,
              raw_files, drive_files, airtable_records, sheet_rows,
              forwarded_messages, stats, spc, a_iterator, processed_count, batch,
              bpc, tasks, cur, floods, init_floods, failures, passed, last_write, scans,
              flood_at, a_event>>

pathVars == <<p_track, p_path, p_pc>>

parseVars == <<q_input, q_text, q_info, q_pc>>

metaVars == <<m_message, m_track, m_row, m_pc>>

poolVars == <<w_batch, w_pc, w_reg, w_raw, w_rows, w_stats, w_fresh, w_failed, d_cur>>

vars == <<histVars, archVars, pathVars, parseVars, metaVars, poolVars>>

Range(s) == {s[i] : i \in 1..Len(s)}

Min(a, b) == IF a <= b THEN a ELSE b

(***************************************************************************)
(* Idle values: the state of a program that is not run.                    *)
(***************************************************************************)
PathIdle ==
    /\ p_track = <<>>
    /\ p_path = <<>>
    /\ p_pc = "idle"

ParseIdle ==
    /\ q_input = <<>>
    /\ q_text = <<>>
    /\ q_info = <<>>
    /\ q_pc = "idle"

MetaIdle ==
    /\ m_message = <<>>
    /\ m_track = <<>>
    /\ m_row = <<>>
    /\ m_pc = "idle"

PoolIdle ==
    /\ w_batch = <<>>
    /\ w_pc = <<>>
    /\ w_reg = <<>>
    /\ w_raw = {}
    /\ w_rows = <<>>
    /\ w_stats = <<>>
    /\ w_fresh = 0
    /\ w_failed = 0
    /\ d_cur = 0

NoEvent == [op |-> "none", msg |-> 0, outcome |-> "none"]

ArchIdle ==
    /\ a_channel = <<>>
    /\ a_config = [batch_size |-> 1, gdrive |-> FALSE, airtable |-> FALSE,
                   gsheets |-> FALSE, private_channel |-> FALSE]
    /\ apc = "idle"
    /\ db_open = FALSE
    /\ executor_up = FALSE
    /\ music_tracks = {}
    /\ raw_files = {}
    /\ drive_files = <<>>
    /\ airtable_records = <<>>
    /\ sheet_rows = <<>>
    /\ forwarded_messages = <<>>
    /\ stats = [successful_downloads |-> 0, successful_uploads |-> 0,
                failed_operations |-> 0]
    /\ spc = "idle"
    /\ a_iterator = <<>>
    /\ processed_count = 0
    /\ batch = <<>>
    /\ bpc = "idle"
    /\ tasks = <<>>
    /\ cur = 0
    /\ floods = 0
    /\ init_floods = 0
    /\ failures = 0
    /\ passed = {}
    /\ last_write = <<>>
    /\ scans = <<>>
    /\ flood_at = 0
    /\ a_event = NoEvent

HistIdle ==
    /\ h_channel = 0
    /\ h_audio = {}
    /\ h_config = [RESUME_FROM_CHECKPOINT |-> FALSE, BATCH_SIZE |-> 1,
                   START_DATE |-> 0, END_DATE |-> 0]
    /\ checkpoint_file = <<>>
    /\ batch_files = <<>>
    /\ hpc = "idle"
    /\ start_from_id = 0
    /\ h_iterator = <<>>
    /\ h_processed_count = 0
    /\ last_message_id = 0
    /\ batch_posts = <<>>
    /\ batch_count = 0
    /\ all_posts = <<>>
    /\ h_run = 0
    /\ h_start_checkpoint = <<>>
    /\ h_start_count = 0
    /\ h_seen = {}
    /\ h_collected_before = <<>>
    /\ h_prev_end = "none"
    /\ h_script = FALSE
    /\ h_clock = 0
    /\ h_output_dir = 0
    /\ h_dirs = <<>>
    /\ h_prev_checkpoint = <<>>

(***************************************************************************)
(* History scraper                                                         *)
(***************************************************************************)

\* load_checkpoint: {} when resumption is off or no file exists
LoadCheckpointIgnoringFlag(config, file) == file

LoadCheckpoint(config, file) ==
    IF ~config.RESUME_FROM_CHECKPOINT THEN <<>> ELSE file

\* start_from_id = checkpoint.get('last_message_id', 0) if checkpoint else 0
StartFromId(checkpoint) ==
    IF checkpoint # <<>> THEN checkpoint[1].last_message_id ELSE 0

\* processed_count = checkpoint.get('processed_count', 0) if checkpoint else 0
StartCount(checkpoint) ==
    IF checkpoint # <<>> THEN checkpoint[1].processed_count ELSE 0

\* the date of a message: later messages have later dates
MessageDate(m) == 2 * m

\* the values of START_DATE and END_DATE: 0 for None, or a date that lies
\* between the dates of two messages
Dates == {0} \cup {2 * k + 1 : k \in 1..(NumHistMsgs - 1)}

\* lines 222-226: offset_date is START_DATE, overwritten by END_DATE; 0 when
\* neither is configured and the parameter is not passed
OffsetDate(config) ==
    IF config.END_DATE # 0 THEN config.END_DATE
    ELSE IF config.START_DATE # 0 THEN config.START_DATE
    ELSE 0

RECURSIVE NewestFirst(_)
NewestFirst(ids) ==
    IF ids = {} THEN <<>>
    ELSE LET newest == CHOOSE m \in ids : \A n \in ids : n <= m
         IN  <<newest>> \o NewestFirst(ids \ {newest})

\* client.iter_messages(entity, limit=MAX_MESSAGES, reverse=False, min_id=..,
\* offset_date=..): newest first, only ids greater than min_id, only messages
\* dated before offset_date, at most limit of them
IterMessages(min_id, offset_date) ==
    LET found == NewestFirst({m \in 1..NumHistMsgs :
                                /\ m > min_id
                                /\ offset_date # 0 => MessageDate(m) < offset_date})
    IN  SubSeq(found, 1, Min(Len(found), MAX_MESSAGES))

\* _process_history_message: a post for an audio document, None otherwise
IsHistoryPost(m) == m \in h_audio

\* hashlib.md5(str(self.config.__dict__)): the fingerprint of every field of
\* the configuration, OUTPUT_DIR among them; two configurations have the
\* same fingerprint exactly when all their fields agree
ConfigHash(config, output_dir) ==
    <<config.RESUME_FROM_CHECKPOINT, config.BATCH_SIZE, config.START_DATE,
      config.END_DATE, output_dir>>

\* the checkpoint save_checkpoint writes to OUTPUT_DIR/CHECKPOINT_FILE
Checkpoint(last, count, channel, hash) ==
    <<[last_message_id |-> last, processed_count |-> count,
       channel_username |-> channel, config_hash |-> hash]>>

\* the channels handed to scrape_channel_history; every channel holds
\* messages 1..NumHistMsgs
Channels == 1..NumChannels

\* OUTPUT_DIR as the run scripts build it:
\* f"./history_output_{datetime.now().strftime('%Y%m%d_%H%M%S')}", one
\* directory per second; directory 0 is the fixed OUTPUT_DIR of a
\* configuration that is not built by the scripts
OutputDir(now) == 1 + (now \div TicksPerSecond)

Dirs == 0..OutputDir(MaxClock)

HistInit ==
    /\ h_channel \in Channels
    /\ h_audio \in SUBSET (1..NumHistMsgs)
    /\ h_config \in [RESUME_FROM_CHECKPOINT : BOOLEAN, BATCH_SIZE : 1..MaxHistBatch,
                    START_DATE : Dates, END_DATE : Dates]
    /\ h_script \in BOOLEAN
    /\ h_script => h_config.RESUME_FROM_CHECKPOINT
    /\ h_clock = 0
    /\ h_output_dir = IF h_script THEN OutputDir(0) ELSE 0
    /\ h_dirs = [d \in Dirs |-> [checkpoint |-> <<>>, batches |-> <<>>]]
    /\ h_prev_checkpoint = <<>>
    /\ checkpoint_file = <<>>
    /\ batch_files = <<>>
    /\ hpc = "start"
    /\ start_from_id = 0
    /\ h_iterator = <<>>
    /\ h_processed_count = 0
    /\ last_message_id = 0
    /\ batch_posts = <<>>
    /\ batch_count = 0
    /\ all_posts = <<>>
    /\ h_run = 1
    /\ h_start_checkpoint = <<>>
    /\ h_start_count = 0
    /\ h_seen = {}
    /\ h_collected_before = [c \in Channels |-> {}]
    /\ h_prev_end = "none"
    /\ ArchIdle
    /\ PathIdle
    /\ ParseIdle
    /\ MetaIdle
    /\ PoolIdle

\* lines 186-229: load the checkpoint and set up the iterator
HStart ==
    /\ hpc = "start"
    /\ LET checkpoint == LoadCheckpoint(h_config, checkpoint_file) IN
        /\ start_from_id' = StartFromId(checkpoint)
        /\ h_processed_count' = StartCount(checkpoint)
        /\ h_start_count' = StartCount(checkpoint)
        /\ h_iterator' = IterMessages(StartFromId(checkpoint), OffsetDate(h_config))
    /\ last_message_id' = 0
    /\ all_posts' = <<>>
    /\ batch_posts' = <<>>
    /\ batch_count' = 0
    /\ h_start_checkpoint' = checkpoint_file
    /\ h_seen' = {}
    /\ hpc' = "iter"
    /\ UNCHANGED <<archVars, pathVars, parseVars, metaVars, poolVars, dirVars, h_channel, h_audio, h_config, checkpoint_file, batch_files, h_run,
                   h_collected_before, h_prev_end>>

\* lines 231-247: one message of the loop, up to the test of the batch size.
\* _process_history_message catches every exception itself, so the handlers
\* of lines 260-267 are reached from _save_batch_data alone.
HMessage ==
    /\ hpc = "iter"
    /\ h_iterator # <<>>
    /\ LET m == Head(h_iterator)
           posts == IF IsHistoryPost(m) THEN Append(batch_posts, m) ELSE batch_posts
       IN
        /\ h_iterator' = Tail(h_iterator)
        /\ h_seen' = h_seen \cup {m}
        /\ batch_posts' = posts
        /\ IF IsHistoryPost(m)
             THEN /\ all_posts' = Append(all_posts, m)
                  /\ h_processed_count' = h_processed_count + 1
                  /\ last_message_id' = m
             ELSE UNCHANGED <<all_posts, h_processed_count, last_message_id>>
        /\ hpc' = IF Len(posts) >= h_config.BATCH_SIZE THEN "save_batch" ELSE "iter"
    /\ UNCHANGED <<archVars, pathVars, parseVars, metaVars, poolVars, dirVars, h_channel, h_audio, h_config, checkpoint_file, batch_files, start_from_id,
                   batch_count, h_run, h_start_checkpoint, h_start_count,
                   h_collected_before, h_prev_end>>

\* line 248: _save_batch_data writes the batch file
HSaveBatch ==
    /\ hpc = "save_batch"
    /\ batch_files' = [n \in DOMAIN batch_files \cup {batch_count + 1} |->
                          IF n = batch_count + 1 THEN batch_posts ELSE batch_files[n]]
    /\ hpc' = "checkpoint"
    /\ UNCHANGED <<archVars, pathVars, parseVars, metaVars, poolVars, dirVars, h_channel, h_audio, h_config, checkpoint_file, start_from_id, h_iterator,
                   h_processed_count, last_message_id, batch_posts, batch_count,
                   all_posts, h_run, h_start_checkpoint, h_start_count, h_seen,
                   h_collected_before, h_prev_end>>

\* line 248 raising (the file cannot be written), lines 265-267: continue
HSaveBatchFails ==
    /\ hpc = "save_batch"
    /\ hpc' = "iter"
    /\ UNCHANGED <<archVars, pathVars, parseVars, metaVars, poolVars, dirVars, h_channel, h_audio, h_config, checkpoint_file, batch_files, start_from_id,
                   h_iterator, h_processed_count, last_message_id, batch_posts,
                   batch_count, all_posts, h_run, h_start_checkpoint, h_start_count,
                   h_seen, h_collected_before, h_prev_end>>

\* lines 250-258: checkpoint, new batch, delay
HCheckpoint ==
    /\ hpc = "checkpoint"
    /\ checkpoint_file' = Checkpoint(last_message_id, h_processed_count, h_channel,
                                            ConfigHash(h_config, h_output_dir))
    /\ batch_posts' = <<>>
    /\ batch_count' = batch_count + 1
    /\ hpc' = "iter"
    /\ UNCHANGED <<archVars, pathVars, parseVars, metaVars, poolVars, dirVars, h_channel, h_audio, h_config, batch_files, start_from_id, h_iterator,
                   h_processed_count, last_message_id, all_posts, h_run,
                   h_start_checkpoint, h_start_count, h_seen, h_collected_before,
                   h_prev_end>>

\* lines 269-271: the iterator is exhausted, the remaining batch is saved
HFinalBatch ==
    /\ hpc = "iter"
    /\ h_iterator = <<>>
    /\ batch_files' = IF batch_posts # <<>>
                        THEN [n \in DOMAIN batch_files \cup {batch_count + 1} |->
                                IF n = batch_count + 1 THEN batch_posts
                                                       ELSE batch_files[n]]
                        ELSE batch_files
    /\ hpc' = "final_checkpoint"
    /\ UNCHANGED <<archVars, pathVars, parseVars, metaVars, poolVars, dirVars, h_channel, h_audio, h_config, checkpoint_file, start_from_id, h_iterator,
                   h_processed_count, last_message_id, batch_posts, batch_count,
                   all_posts, h_run, h_start_checkpoint, h_start_count, h_seen,
                   h_collected_before, h_prev_end>>

\* lines 273-282: final checkpoint, return all_posts
HFinalCheckpoint ==
    /\ hpc = "final_checkpoint"
    /\ checkpoint_file' = IF last_message_id # 0
                            THEN Checkpoint(last_message_id, h_processed_count, h_channel,
                                            ConfigHash(h_config, h_output_dir))
                            ELSE checkpoint_file
    /\ hpc' = "done"
    /\ UNCHANGED <<archVars, pathVars, parseVars, metaVars, poolVars, dirVars, h_channel, h_audio, h_config, batch_files, start_from_id, h_iterator,
                   h_processed_count, last_message_id, batch_posts, batch_count,
                   all_posts, h_run, h_start_checkpoint, h_start_count, h_seen,
                   h_collected_before, h_prev_end>>

\* the handler of lines 284-289 without its save_checkpoint
HIteratorRaisesNoCheckpoint ==
    /\ hpc = "iter"
    /\ h_iterator # <<>>
    /\ hpc' = "raised"
    /\ UNCHANGED <<archVars, pathVars, parseVars, metaVars, poolVars, dirVars, h_channel, h_audio, h_config, checkpoint_file, batch_files,
                   start_from_id, h_iterator, h_processed_count, last_message_id,
                   batch_posts, batch_count, all_posts, h_run, h_start_checkpoint,
                   h_start_count, h_seen, h_collected_before, h_prev_end>>

\* line 231 raising while the iterator fetches, lines 284-289: checkpoint, raise
HIteratorRaises ==
    /\ hpc = "iter"
    /\ h_iterator # <<>>
    /\ checkpoint_file' = IF last_message_id # 0
                            THEN Checkpoint(last_message_id, h_processed_count, h_channel,
                                            ConfigHash(h_config, h_output_dir))
                            ELSE checkpoint_file
    /\ hpc' = "raised"
    /\ UNCHANGED <<archVars, pathVars, parseVars, metaVars, poolVars, dirVars, h_channel, h_audio, h_config, batch_files, start_from_id, h_iterator,
                   h_processed_count, last_message_id, batch_posts, batch_count,
                   all_posts, h_run, h_start_checkpoint, h_start_count, h_seen,
                   h_collected_before, h_prev_end>>

\* line 231 raising FloodWaitError while the iterator fetches: the inner
\* handler of lines 260-263 guards the loop body only, so the error reaches
\* the handler of lines 284-289 like any other: checkpoint, raise
HIteratorFlood ==
    /\ hpc = "iter"
    /\ h_iterator # <<>>
    /\ checkpoint_file' = IF last_message_id # 0
                            THEN Checkpoint(last_message_id, h_processed_count, h_channel,
                                            ConfigHash(h_config, h_output_dir))
                            ELSE checkpoint_file
    /\ hpc' = "flood_raised"
    /\ UNCHANGED <<archVars, pathVars, parseVars, metaVars, poolVars, dirVars, h_channel, h_audio, h_config, batch_files, start_from_id, h_iterator,
                   h_processed_count, last_message_id, batch_posts, batch_count,
                   all_posts, h_run, h_start_checkpoint, h_start_count, h_seen,
                   h_collected_before, h_prev_end>>

\* lines 191-192: get_entity or get_channel_info raising, before the try
\* block is entered: the error leaves scrape_channel_history as it is
HEntityRaises ==
    /\ hpc = "start"
    /\ \E kind \in {"entity_raised", "entity_flood_raised"} : hpc' = kind
    /\ h_start_checkpoint' = checkpoint_file
    /\ h_start_count' = StartCount(LoadCheckpoint(h_config, checkpoint_file))
    /\ UNCHANGED <<archVars, pathVars, parseVars, metaVars, poolVars, dirVars, h_channel, h_audio, h_config, checkpoint_file, batch_files,
                   start_from_id, h_iterator, h_processed_count, last_message_id,
                   batch_posts, batch_count, all_posts, h_run, h_seen,
                   h_collected_before, h_prev_end>>

\* the process is interrupted (killed) somewhere in the scan
HInterrupt ==
    /\ hpc \in {"iter", "save_batch", "checkpoint", "final_checkpoint"}
    /\ hpc' = "killed"
    /\ UNCHANGED <<archVars, pathVars, parseVars, metaVars, poolVars, dirVars, h_channel, h_audio, h_config, checkpoint_file, batch_files, start_from_id,
                   h_iterator, h_processed_count, last_message_id, batch_posts,
                   batch_count, all_posts, h_run, h_start_checkpoint, h_start_count,
                   h_seen, h_collected_before, h_prev_end>>

\* scrape_channel_history is called again with the same output directory and
\* the same or another BATCH_SIZE: the script is run again, or scrape_multiple_channels
\* (lines 547-573) goes on to its next channel with the same scraper
HRestart ==
    /\ hpc \in {"killed", "raised", "flood_raised", "entity_raised",
               "entity_flood_raised", "done"}
    /\ h_run < MaxRuns
    /\ h_run' = h_run + 1
    /\ h_prev_end' = hpc
    /\ h_channel' \in Channels
    /\ h_collected_before' =
          [h_collected_before EXCEPT ![h_channel] = @ \cup Range(all_posts)]
    /\ hpc' = "start"
    /\ start_from_id' = 0
    /\ h_iterator' = <<>>
    /\ h_processed_count' = 0
    /\ last_message_id' = 0
    /\ batch_posts' = <<>>
    /\ batch_count' = 0
    /\ all_posts' = <<>>
    /\ h_seen' = {}
    /\ h_prev_checkpoint' = <<>>
    /\ \E size \in 1..MaxHistBatch : h_config' = [h_config EXCEPT !.BATCH_SIZE = size]
    /\ UNCHANGED <<archVars, pathVars, parseVars, metaVars, poolVars, h_audio, checkpoint_file, batch_files,
                   h_start_checkpoint, h_start_count, h_script, h_clock,
                   h_output_dir, h_dirs>>

\* the run script is started again for the same channel: run_recent_history
\* (run_recent_test.py 175-193) and setup_history_config
\* (run_history_scraping.py 42-60) build a new HistoryConfig whose OUTPUT_DIR
\* carries the time of the start
HRunScript ==
    /\ hpc \in {"killed", "raised", "flood_raised", "entity_raised",
               "entity_flood_raised", "done"}
    /\ h_run < MaxRuns
    /\ h_script
    /\ \E now \in h_clock..MaxClock :
        LET left == [h_dirs EXCEPT ![h_output_dir] =
                        [checkpoint |-> checkpoint_file, batches |-> batch_files]]
        IN  /\ h_clock' = now
            /\ h_output_dir' = OutputDir(now)
            /\ h_dirs' = left
            /\ checkpoint_file' = left[OutputDir(now)].checkpoint
            /\ batch_files' = left[OutputDir(now)].batches
    /\ h_prev_checkpoint' = checkpoint_file
    /\ h_run' = h_run + 1
    /\ h_prev_end' = hpc
    /\ h_collected_before' =
          [h_collected_before EXCEPT ![h_channel] = @ \cup Range(all_posts)]
    /\ hpc' = "start"
    /\ start_from_id' = 0
    /\ h_iterator' = <<>>
    /\ h_processed_count' = 0
    /\ last_message_id' = 0
    /\ batch_posts' = <<>>
    /\ batch_count' = 0
    /\ all_posts' = <<>>
    /\ h_seen' = {}
    /\ UNCHANGED <<archVars, pathVars, parseVars, metaVars, poolVars, h_channel, h_audio, h_config, h_start_checkpoint,
                   h_start_count, h_script>>

HistNext ==
    \/ HStart
    \/ HMessage
    \/ HSaveBatch
    \/ HSaveBatchFails
    \/ HCheckpoint
    \/ HFinalBatch
    \/ HFinalCheckpoint
    \/ HIteratorRaises
    \/ HIteratorFlood
    \/ HEntityRaises
    \/ HInterrupt
    \/ HRestart
    \/ HRunScript

HistSpec == HistInit /\ [][HistNext]_vars

(***************************************************************************)
(* Archiver                                                                *)
(***************************************************************************)

\* document ids: the same document may be posted in more than one message
FileIds == {1, 2}

\* a message without media, a message whose media is a MessageMediaDocument
\* with no document, a message with an audio document
Messages ==
    {[kind |-> "text", file_id |-> 0], [kind |-> "nodoc", file_id |-> 0]}
        \cup {[kind |-> "audio", file_id |-> f] : f \in FileIds}

\* the clients that are set up: all of Drive, Airtable, Sheets and the private
\* channel, or none of them
SinkConfigs ==
    {[gdrive |-> b, airtable |-> b, gsheets |-> b, private_channel |-> b] :
        b \in BOOLEAN}

\* is_audio_message raises AttributeError at document.mime_type
IsAudioRaises(message) == message.kind = "nodoc"

IsAudioMessage(message) == message.kind = "audio"

\* extract_track_info: the MusicTrack of an audio message
ExtractTrackInfo(id, message) ==
    [file_id |-> message.file_id, message_id |-> id, file_path |-> "",
     processing_status |-> "pending", forwarded_date |-> 0, gdrive_url |-> 0,
     airtable_id |-> 0, sheets_row |-> 0]

\* iter_messages(entity, limit=None): every message, newest first
AllMessages == [i \in 1..NumMsgs |-> NumMsgs - i + 1]

\* INSERT OR REPLACE INTO music_tracks, file_id being the PRIMARY KEY
InsertWithoutReplace(rows, track) == rows \cup {track}

InsertOrReplace(rows, track) ==
    {r \in rows : r.file_id # track.file_id} \cup {track}

\* save_track_to_db / update_track_in_db: an error of the store is logged only
SaveTrackToDb(rows, open, track) ==
    IF open THEN InsertOrReplace(rows, track) ELSE rows

\* the row the store last wrote for each file id (history)
LastWrite(lw, open, track) ==
    IF open THEN [lw EXCEPT ![track.file_id] = <<track>>] ELSE lw

RECURSIVE SaveAll(_, _, _)
SaveAll(rows, open, tracks) ==
    IF tracks = <<>> THEN rows
    ELSE SaveAll(SaveTrackToDb(rows, open, Head(tracks)), open, Tail(tracks))

RECURSIVE LastWriteAll(_, _, _)
LastWriteAll(lw, open, tracks) ==
    IF tracks = <<>> THEN lw
    ELSE LastWriteAll(LastWrite(lw, open, Head(tracks)), open, Tail(tracks))

Event(op, msg, outcome) == [op |-> op, msg |-> msg, outcome |-> outcome]

\* the status upload_to_cloud, download_track and organize_track assign
UploadedStatusCompleted == "completed"

UploadedStatus == "uploaded"

cfgVars == <<a_channel, a_config>>
sinkVars == <<drive_files, airtable_records, sheet_rows, forwarded_messages>>
floodVars == <<floods, init_floods, flood_at>>

\* how a call of a collaborator may end: TRUE for success
Outcomes(possible) ==
    IF possible /\ failures < MaxFailures THEN BOOLEAN ELSE {TRUE}

Failed(ok) == failures' = IF ok THEN failures ELSE failures + 1
scanVars == <<spc, a_iterator, processed_count, scans, passed>>

ArchInit ==
    /\ a_channel \in [1..NumMsgs -> Messages]
    /\ \E b \in 1..MaxBatch, sinks \in SinkConfigs :
          a_config = [batch_size |-> b, gdrive |-> sinks.gdrive,
                      airtable |-> sinks.airtable, gsheets |-> sinks.gsheets,
                      private_channel |-> sinks.private_channel]
    /\ apc = "init_clients"
    /\ db_open = TRUE
    /\ executor_up = TRUE
    /\ music_tracks = {}
    /\ raw_files = {}
    /\ drive_files = <<>>
    /\ airtable_records = <<>>
    /\ sheet_rows = <<>>
    /\ forwarded_messages = <<>>
    /\ stats = [successful_downloads |-> 0, successful_uploads |-> 0,
                failed_operations |-> 0]
    /\ spc = "idle"
    /\ a_iterator = <<>>
    /\ processed_count = 0
    /\ batch = <<>>
    /\ bpc = "idle"
    /\ tasks = <<>>
    /\ cur = 0
    /\ floods = 0
    /\ init_floods = 0
    /\ failures = 0
    /\ passed = {}
    /\ last_write = [f \in FileIds |-> <<>>]
    /\ scans = [m \in 1..NumMsgs |-> 0]
    /\ flood_at = 0
    /\ a_event = NoEvent
    /\ HistIdle
    /\ PathIdle
    /\ ParseIdle
    /\ MetaIdle
    /\ PoolIdle

(*--------------------------- run_automation ------------------------------*)

\* lines 972-977: initialize_clients returns, process_channel_history starts
AInitClients ==
    /\ apc = "init_clients"
    /\ apc' = "scan"
    /\ spc' = "entity"
    /\ passed' = {}
    /\ scans' = [m \in 1..NumMsgs |-> 0]
    /\ a_event' = Event("initialize_clients", 0, "ok")
    /\ UNCHANGED <<histVars, pathVars, parseVars, metaVars, poolVars, cfgVars, failures, sinkVars, floodVars, db_open, executor_up,
                   music_tracks, raw_files, stats, a_iterator, processed_count,
                   batch, bpc, tasks, cur, last_write>>

\* initialize_clients raises FloodWaitError: lines 985-989, then the finally
\* block of lines 994-1000, then the next iteration of the while loop
AInitFlood ==
    /\ apc = "init_clients"
    /\ init_floods < MaxInitFloods
    /\ init_floods' = init_floods + 1
    /\ db_open' = FALSE
    /\ executor_up' = FALSE
    /\ a_event' = Event("initialize_clients", 0, "flood")
    /\ UNCHANGED <<histVars, pathVars, parseVars, metaVars, poolVars, cfgVars, failures, sinkVars, scanVars, apc, floods, flood_at,
                   music_tracks, raw_files, stats, batch, bpc, tasks, cur,
                   last_write>>

\* process_channel_history returned: get_processing_stats (lines 979-983) needs
\* the database; then the finally block
AFinalStats ==
    /\ apc = "scan"
    /\ spc = "returned"
    /\ apc' = IF db_open THEN "done" ELSE "failed"
    /\ spc' = "idle"
    /\ db_open' = FALSE
    /\ executor_up' = FALSE
    /\ a_event' = Event("get_processing_stats", 0, IF db_open THEN "ok" ELSE "raise")
    /\ UNCHANGED <<histVars, pathVars, parseVars, metaVars, poolVars, cfgVars, failures, sinkVars, floodVars, music_tracks, raw_files,
                   stats, a_iterator, processed_count, scans, passed, batch, bpc,
                   tasks, cur, last_write>>

\* process_channel_history raised: lines 990-993, then the finally block
AAutomationFails ==
    /\ apc = "scan"
    /\ spc = "raised"
    /\ apc' = "failed"
    /\ spc' = "idle"
    /\ db_open' = FALSE
    /\ executor_up' = FALSE
    /\ a_event' = Event("run_automation", 0, "raise")
    /\ UNCHANGED <<histVars, pathVars, parseVars, metaVars, poolVars, cfgVars, failures, sinkVars, floodVars, music_tracks, raw_files,
                   stats, a_iterator, processed_count, scans, passed, batch, bpc,
                   tasks, cur, last_write>>

(*------------------------ process_channel_history ------------------------*)

\* lines 430-440: get_entity, the count of the messages, a new empty batch
AEntity ==
    /\ spc = "entity"
    /\ spc' = "iter"
    /\ a_iterator' = AllMessages
    /\ processed_count' = 0
    /\ batch' = <<>>
    /\ a_event' = Event("get_entity", 0, "ok")
    /\ UNCHANGED <<histVars, pathVars, parseVars, metaVars, poolVars, cfgVars, failures, sinkVars, floodVars, apc, db_open,
                   executor_up, music_tracks, raw_files, stats, scans, passed, bpc,
                   tasks, cur, last_write>>

\* get_entity or the message iterator raises FloodWaitError: lines 478-482,
\* then the next iteration of the while loop of line 428
AFlood ==
    /\ spc \in {"entity", "iter"}
    /\ floods < MaxFloods
    /\ floods' = floods + 1
    /\ flood_at' = IF spc = "iter" /\ a_iterator # <<>> THEN Head(a_iterator) ELSE 0
    /\ spc' = "entity"
    /\ a_event' = Event("iter_messages", flood_at', "flood")
    /\ UNCHANGED <<histVars, pathVars, parseVars, metaVars, poolVars, cfgVars, failures, sinkVars, apc, db_open, executor_up,
                   music_tracks, raw_files, stats, a_iterator, processed_count,
                   scans, passed, batch, bpc, tasks, cur, init_floods, last_write>>

\* get_entity or the message iterator raises an error that is no
\* FloodWaitError (the channel cannot be reached): lines 483-485 raise
AScanRaises ==
    /\ \/ spc = "entity"
       \/ spc = "iter" /\ a_iterator # <<>>
    /\ failures < MaxFailures
    /\ failures' = failures + 1
    /\ spc' = "raised"
    /\ a_event' = Event("iter_messages", 0, "raise")
    /\ UNCHANGED <<histVars, pathVars, parseVars, metaVars, poolVars, cfgVars, sinkVars, floodVars, apc, db_open, executor_up,
                   music_tracks, raw_files, stats, a_iterator, processed_count,
                   scans, passed, batch, bpc, tasks, cur, last_write>>

\* lines 443-455 and 467-469: the loop body for the next message, up to the
\* call of process_batch when the batch is full. extract_track_info and
\* process_batch catch every Telegram error themselves, so no FloodWaitError
\* reaches the handler of lines 462-466; is_audio_message raises on a
\* document that is missing.
AMessage ==
    /\ spc = "iter"
    /\ a_iterator # <<>>
    /\ LET id == Head(a_iterator)
           message == a_channel[id]
           collected == IF IsAudioMessage(message)
                          THEN Append(batch, ExtractTrackInfo(id, message))
                          ELSE batch
       IN
        /\ a_iterator' = Tail(a_iterator)
        /\ scans' = [scans EXCEPT ![id] = @ + 1]
        /\ IF IsAudioRaises(message)
             THEN /\ a_event' = Event("message", id, "raise")
                  /\ UNCHANGED <<batch, processed_count, spc, bpc>>
             ELSE /\ batch' = collected
                  /\ a_event' = Event("message", id, "ok")
                  /\ IF Len(collected) >= a_config.batch_size
                       THEN /\ spc' = "loop_batch"
                            /\ bpc' = "save"
                            /\ UNCHANGED processed_count
                       ELSE /\ processed_count' = processed_count + 1
                            /\ UNCHANGED <<spc, bpc>>
    /\ UNCHANGED <<histVars, pathVars, parseVars, metaVars, poolVars, cfgVars, failures, sinkVars, floodVars, apc, db_open,
                   executor_up, music_tracks, raw_files, stats, passed, tasks, cur,
                   last_write>>

\* the loop ends without handing the remaining batch to process_batch
ALoopEndDropsBatch ==
    /\ spc = "iter"
    /\ a_iterator = <<>>
    /\ spc' = "returned"
    /\ a_event' = Event("loop_end", 0, "ok")
    /\ UNCHANGED <<histVars, pathVars, parseVars, metaVars, poolVars, cfgVars, failures, sinkVars, floodVars, apc, db_open,
                   executor_up, music_tracks, raw_files, stats, a_iterator,
                   processed_count, scans, passed, batch, bpc, tasks, cur,
                   last_write>>

\* lines 471-476: the iterator is exhausted; the remaining batch
ALoopEnd ==
    /\ spc = "iter"
    /\ a_iterator = <<>>
    /\ IF batch # <<>>
         THEN spc' = "final_batch" /\ bpc' = "save"
         ELSE spc' = "returned" /\ UNCHANGED bpc
    /\ a_event' = Event("loop_end", 0, "ok")
    /\ UNCHANGED <<histVars, pathVars, parseVars, metaVars, poolVars, cfgVars, failures, sinkVars, floodVars, apc, db_open,
                   executor_up, music_tracks, raw_files, stats, a_iterator,
                   processed_count, scans, passed, batch, tasks, cur, last_write>>

(*----------------------------- process_batch -----------------------------*)

\* lines 569-573: every track of the batch is saved
ABatchSave ==
    /\ bpc = "save"
    /\ passed' = passed \cup {batch[i].message_id : i \in 1..Len(batch)}
    /\ music_tracks' = SaveAll(music_tracks, db_open, batch)
    /\ last_write' = LastWriteAll(last_write, db_open, batch)
    /\ bpc' = "submit"
    /\ a_event' = Event("process_batch", 0, "saved")
    /\ UNCHANGED <<histVars, pathVars, parseVars, metaVars, poolVars, cfgVars, failures, sinkVars, floodVars, apc, db_open,
                   executor_up, raw_files, stats, spc, a_iterator, processed_count,
                   scans, batch, tasks, cur>>

\* lines 575-579: a download task is submitted for every track
ABatchSubmit ==
    /\ bpc = "submit"
    /\ executor_up
    /\ tasks' = [i \in 1..Len(batch) |-> "queued"]
    /\ bpc' = "wait"
    /\ a_event' = Event("process_batch", 0, "submitted")
    /\ UNCHANGED <<histVars, pathVars, parseVars, metaVars, poolVars, cfgVars, failures, sinkVars, floodVars, scanVars, apc, db_open,
                   executor_up, music_tracks, raw_files, stats, batch, cur,
                   last_write>>

\* line 578 on an executor that was shut down: RuntimeError leaves
\* process_batch; in the loop lines 467-469 continue with the batch kept, after
\* the loop lines 483-485 raise
ABatchSubmitRaises ==
    /\ bpc = "submit"
    /\ ~executor_up
    /\ bpc' = "idle"
    /\ spc' = IF spc = "loop_batch" THEN "iter" ELSE "raised"
    /\ a_event' = Event("process_batch", 0, "raise")
    /\ UNCHANGED <<histVars, pathVars, parseVars, metaVars, poolVars, cfgVars, failures, sinkVars, floodVars, apc, db_open,
                   executor_up, music_tracks, raw_files, stats, a_iterator,
                   processed_count, scans, passed, batch, tasks, cur, last_write>>

\* download_track, run by a pool worker for track i
ADownload(i) ==
    /\ bpc \notin {"idle", "save", "submit"}
    /\ i \in DOMAIN tasks
    /\ tasks[i] = "queued"
    /\ LET track == batch[i] IN
        IF track.file_id \in raw_files
          THEN \* lines 598-602: the raw file exists already
               LET t == [track EXCEPT !.file_path = "raw",
                                      !.processing_status = "downloaded"] IN
                /\ batch' = [batch EXCEPT ![i] = t]
                /\ music_tracks' = SaveTrackToDb(music_tracks, db_open, t)
                /\ last_write' = LastWrite(last_write, db_open, t)
                /\ tasks' = [tasks EXCEPT ![i] = "ok"]
                /\ a_event' = Event("download", track.message_id, "skip")
                /\ UNCHANGED <<raw_files, stats, failures>>
          ELSE \E ok \in Outcomes(TRUE) :
                /\ Failed(ok)
                /\ IF ok
                  THEN \* lines 604-623
                       LET t == [track EXCEPT !.file_path = "raw",
                                              !.processing_status = "downloaded"] IN
                        /\ raw_files' = raw_files \cup {track.file_id}
                        /\ batch' = [batch EXCEPT ![i] = t]
                        /\ music_tracks' = SaveTrackToDb(music_tracks, db_open, t)
                        /\ last_write' = LastWrite(last_write, db_open, t)
                        /\ stats' = [stats EXCEPT !.successful_downloads = @ + 1]
                        /\ tasks' = [tasks EXCEPT ![i] = "ok"]
                        /\ a_event' = Event("download", track.message_id, "ok")
                  ELSE \* lines 627-632
                       LET t == [track EXCEPT !.processing_status = "failed"] IN
                        /\ batch' = [batch EXCEPT ![i] = t]
                        /\ music_tracks' = SaveTrackToDb(music_tracks, db_open, t)
                        /\ last_write' = LastWrite(last_write, db_open, t)
                        /\ stats' = [stats EXCEPT !.failed_operations = @ + 1]
                        /\ tasks' = [tasks EXCEPT ![i] = "failed"]
                        /\ a_event' = Event("download", track.message_id, "fail")
                        /\ UNCHANGED raw_files
    /\ UNCHANGED <<histVars, pathVars, parseVars, metaVars, poolVars, cfgVars, sinkVars, floodVars, scanVars, apc, db_open,
                   executor_up, bpc, cur>>

\* lines 582-587: as_completed yields a finished future; a downloaded track
\* goes to process_downloaded_track
AResult(i) ==
    /\ bpc = "wait"
    /\ i \in DOMAIN tasks
    /\ tasks[i] \in {"ok", "failed"}
    /\ tasks' = [tasks EXCEPT ![i] = "consumed"]
    /\ IF tasks[i] = "ok"
         THEN cur' = i /\ bpc' = "organize"
         ELSE UNCHANGED <<cur, bpc>>
    /\ a_event' = Event("result", batch[i].message_id, tasks[i])
    /\ UNCHANGED <<histVars, pathVars, parseVars, metaVars, poolVars, cfgVars, failures, sinkVars, floodVars, scanVars, apc, db_open,
                   executor_up, music_tracks, raw_files, stats, batch, last_write>>

\* every future was yielded: process_batch returns; in the loop lines 453-455
\* empty the batch and count the message, after the loop lines 475-476 return
ABatchReturn ==
    /\ bpc = "wait"
    /\ \A i \in DOMAIN tasks : tasks[i] = "consumed"
    /\ bpc' = "idle"
    /\ tasks' = <<>>
    /\ cur' = 0
    /\ IF spc = "loop_batch"
         THEN /\ spc' = "iter"
              /\ batch' = <<>>
              /\ processed_count' = processed_count + 1
         ELSE /\ spc' = "returned"
              /\ UNCHANGED <<batch, processed_count>>
    /\ a_event' = Event("process_batch", 0, "return")
    /\ UNCHANGED <<histVars, pathVars, parseVars, metaVars, poolVars, cfgVars, failures, sinkVars, floodVars, apc, db_open,
                   executor_up, music_tracks, raw_files, stats, a_iterator, scans,
                   passed, last_write>>


(*------------------------ process_downloaded_track -----------------------*)

\* organize_track for the track process_batch got from a finished download
AOrganize ==
    /\ bpc = "organize"
    /\ LET track == batch[cur] IN
        IF track.file_path = "" \/ track.file_id \notin raw_files
          THEN \* lines 658-659: the file is not there, None is returned
               /\ bpc' = "wait"
               /\ a_event' = Event("organize", track.message_id, "missing")
               /\ UNCHANGED <<batch, music_tracks, last_write, raw_files, failures>>
          ELSE \E ok \in Outcomes(TRUE) :
                /\ Failed(ok)
                /\ IF ok
                  THEN \* lines 661-690: the file is moved out of raw/
                       LET t == [track EXCEPT !.file_path = "organized",
                                              !.processing_status = "organized"] IN
                        /\ raw_files' = raw_files \ {track.file_id}
                        /\ batch' = [batch EXCEPT ![cur] = t]
                        /\ music_tracks' = SaveTrackToDb(music_tracks, db_open, t)
                        /\ last_write' = LastWrite(last_write, db_open, t)
                        /\ bpc' = "upload"
                        /\ a_event' = Event("organize", track.message_id, "ok")
                  ELSE \* lines 692-696
                       LET t == [track EXCEPT !.processing_status = "failed"] IN
                        /\ batch' = [batch EXCEPT ![cur] = t]
                        /\ music_tracks' = SaveTrackToDb(music_tracks, db_open, t)
                        /\ last_write' = LastWrite(last_write, db_open, t)
                        /\ bpc' = "wait"
                        /\ a_event' = Event("organize", track.message_id, "fail")
                        /\ UNCHANGED raw_files
    /\ UNCHANGED <<histVars, pathVars, parseVars, metaVars, poolVars, cfgVars, sinkVars, floodVars, scanVars, apc, db_open,
                   executor_up, stats, tasks, cur>>

\* upload_to_cloud with upload_to_gdrive: files().create makes a new Drive file
\* and its link is returned, or the upload fails and None is returned
AUpload ==
    /\ bpc = "upload"
    /\ \E ok \in Outcomes(a_config.gdrive) :
        LET track == batch[cur]
            created == a_config.gdrive /\ ok
            url == Len(drive_files) + 1
            t == [track EXCEPT !.gdrive_url = IF created THEN url ELSE @,
                               !.processing_status = UploadedStatus]
        IN
        /\ Failed(ok)
        /\ drive_files' = IF created THEN Append(drive_files, track.file_id)
                                     ELSE drive_files
        /\ batch' = [batch EXCEPT ![cur] = t]
        /\ music_tracks' = SaveTrackToDb(music_tracks, db_open, t)
        /\ last_write' = LastWrite(last_write, db_open, t)
        /\ stats' = [stats EXCEPT !.successful_uploads = @ + 1]
        /\ a_event' = Event("upload", track.message_id,
                            IF created THEN "ok"
                            ELSE IF a_config.gdrive THEN "fail" ELSE "off")
    /\ bpc' = "sync_airtable"
    /\ UNCHANGED <<histVars, pathVars, parseVars, metaVars, poolVars, cfgVars, floodVars, scanVars, apc, db_open,
                   executor_up, raw_files, airtable_records, sheet_rows,
                   forwarded_messages, tasks, cur>>

\* sync_to_databases, lines 806-810 with sync_to_airtable: create makes a new
\* record and its id is returned, or the call fails and None is returned
ASyncAirtable ==
    /\ bpc = "sync_airtable"
    /\ \E ok \in Outcomes(a_config.airtable) :
        LET track == batch[cur]
            created == a_config.airtable /\ ok
            id == Len(airtable_records) + 1
        IN
        /\ Failed(ok)
        /\ airtable_records' = IF created THEN Append(airtable_records, track.file_id)
                                          ELSE airtable_records
        /\ batch' = [batch EXCEPT ![cur].airtable_id = IF created THEN id ELSE @]
        /\ a_event' = Event("sync_airtable", track.message_id,
                            IF created THEN "ok"
                            ELSE IF a_config.airtable THEN "fail" ELSE "off")
    /\ bpc' = "sync_sheets"
    /\ UNCHANGED <<histVars, pathVars, parseVars, metaVars, poolVars, cfgVars, floodVars, scanVars, apc, db_open,
                   executor_up, music_tracks, last_write, raw_files, stats,
                   drive_files, sheet_rows, forwarded_messages, tasks, cur>>

\* sync_to_databases, lines 812-818 with sync_to_gsheets: append_row adds a row
\* and the row count is returned, or the call fails and None is returned; then
\* the track is written to the store
ASyncSheets ==
    /\ bpc = "sync_sheets"
    /\ \E ok \in Outcomes(a_config.gsheets) :
        LET track == batch[cur]
            created == a_config.gsheets /\ ok
            row == Len(sheet_rows) + 1
            t == [track EXCEPT !.sheets_row = IF created THEN row ELSE @]
        IN
        /\ Failed(ok)
        /\ sheet_rows' = IF created THEN Append(sheet_rows, track.file_id)
                                    ELSE sheet_rows
        /\ batch' = [batch EXCEPT ![cur] = t]
        /\ music_tracks' = SaveTrackToDb(music_tracks, db_open, t)
        /\ last_write' = LastWrite(last_write, db_open, t)
        /\ a_event' = Event("sync_sheets", track.message_id,
                            IF created THEN "ok"
                            ELSE IF a_config.gsheets THEN "fail" ELSE "off")
    \* lines 648-650: the forward is called only with a private channel
    /\ bpc' = IF a_config.private_channel THEN "forward" ELSE "wait"
    /\ UNCHANGED <<histVars, pathVars, parseVars, metaVars, poolVars, cfgVars, floodVars, scanVars, apc, db_open,
                   executor_up, raw_files, stats, drive_files, airtable_records,
                   forwarded_messages, tasks, cur>>

\* forward_to_private_channel: the message is forwarded and forwarded_date is
\* set and stored, or get_messages / forward_messages fails and nothing is set
AForward ==
    /\ bpc = "forward"
    /\ \E ok \in Outcomes(TRUE) :
        LET track == batch[cur]
            t == [track EXCEPT !.forwarded_date = 1]
        IN
        /\ Failed(ok)
        /\ IF ok
          THEN /\ forwarded_messages' = Append(forwarded_messages, track.message_id)
               /\ batch' = [batch EXCEPT ![cur] = t]
               /\ music_tracks' = SaveTrackToDb(music_tracks, db_open, t)
               /\ last_write' = LastWrite(last_write, db_open, t)
               /\ a_event' = Event("forward", track.message_id, "ok")
          ELSE /\ a_event' = Event("forward", track.message_id, "fail")
               /\ UNCHANGED <<forwarded_messages, batch, music_tracks, last_write>>
    /\ bpc' = "wait"
    /\ UNCHANGED <<histVars, pathVars, parseVars, metaVars, poolVars, cfgVars, floodVars, scanVars, apc, db_open,
                   executor_up, raw_files, stats, drive_files, airtable_records,
                   sheet_rows, tasks, cur>>

ArchNext ==
    \/ AInitClients
    \/ AInitFlood
    \/ AFinalStats
    \/ AAutomationFails
    \/ AEntity
    \/ AFlood
    \/ AScanRaises
    \/ AMessage
    \/ ALoopEnd
    \/ ABatchSave
    \/ ABatchSubmit
    \/ ABatchSubmitRaises
    \/ \E i \in DOMAIN tasks : ADownload(i)
    \/ \E i \in DOMAIN tasks : AResult(i)
    \/ ABatchReturn
    \/ AOrganize
    \/ AUpload
    \/ ASyncAirtable
    \/ ASyncSheets
    \/ AForward

ArchSpec == ArchInit /\ [][ArchNext]_vars

(***************************************************************************)
(* organize_file_path                                                      *)
(*                                                                         *)
(* A string is a sequence of characters. The names handed in are built     *)
(* from a letter, a blank, two of the reserved characters and a control    *)
(* character.                                                              *)
(***************************************************************************)

\* the characters of the class [<>:"/\\|?*] of line 398
ReservedChars == {"<", ">", ":", "\"", "/", "\\", "|", "?", "*"}

\* the characters of the class [\x00-\x1f] of line 399; "ctl" stands for one
ControlChars == {"ctl"}

InputChars == {"a", " ", ":", "/", "ctl"}

RECURSIVE Strings(_)
Strings(n) ==
    IF n = 0 THEN {<<>>}
    ELSE LET shorter == Strings(n - 1)
         IN  shorter \cup {Append(s, c) : s \in shorter, c \in InputChars}

RemoveChars(name, chars) == SelectSeq(name, LAMBDA c : c \notin chars)

\* str.strip(): leading and trailing white space removed
RECURSIVE Strip(_)
Strip(name) ==
    IF name = <<>> THEN <<>>
    ELSE IF Head(name) = " " THEN Strip(Tail(name))
    ELSE IF name[Len(name)] = " " THEN Strip(SubSeq(name, 1, Len(name) - 1))
    ELSE name

\* lines 395-400
SanitizeName(name) ==
    Strip(RemoveChars(RemoveChars(name, ReservedChars), ControlChars))

\* the parts a string joined to a Path with / contributes: '/' separates
RECURSIVE PathParts(_, _)
PathParts(name, part) ==
    IF name = <<>> THEN (IF part = <<>> THEN <<>> ELSE <<part>>)
    ELSE IF Head(name) = "/"
           THEN (IF part = <<>> THEN <<>> ELSE <<part>>) \o PathParts(Tail(name), <<>>)
           ELSE PathParts(Tail(name), Append(part, Head(name)))

\* lines 402-422: the path below base_path, as its sequence of segments. The
\* suffix is that of the raw file, downloads/raw/<file_id>.mp3 (line 595)
OrganizeFilePath(track, create_side_folders) ==
    LET artist == IF SanitizeName(track.artist) # <<>>
                    THEN SanitizeName(track.artist) ELSE <<"Unknown Artist">>
        album == IF SanitizeName(track.album) # <<>>
                   THEN SanitizeName(track.album) ELSE <<"Unknown Album">>
        year == track.year
        album_folder == IF year # <<>>
                          THEN artist \o <<" ", "-", " ">> \o album
                                 \o <<" ", "(">> \o year \o <<")">>
                          ELSE artist \o <<" ", "-", " ">> \o album
        file_name == SanitizeName(track.title) \o <<".mp3">>
    IN  PathParts(album_folder, <<>>)
          \o (IF create_side_folders THEN PathParts(track.side, <<>>) ELSE <<>>)
          \o PathParts(file_name, <<>>)

PathInit ==
    /\ p_track \in [artist : Strings(MaxNameLen), album : Strings(MaxNameLen),
                     year : Strings(MaxNameLen), title : Strings(MaxNameLen),
                     side : {<<"Side A">>, <<"Side B">>},
                     create_side_folders : BOOLEAN]
    /\ p_path = <<>>
    /\ p_pc = "call"
    /\ HistIdle
    /\ ArchIdle
    /\ ParseIdle
    /\ MetaIdle
    /\ PoolIdle

\* organize_track, line 677: organized_path = self.organize_file_path(track)
POrganize ==
    /\ p_pc = "call"
    /\ p_path' = OrganizeFilePath(p_track, p_track.create_side_folders)
    /\ p_pc' = "done"
    /\ UNCHANGED <<histVars, archVars, parseVars, metaVars, poolVars, p_track>>

PathNext == POrganize

PathSpec == PathInit /\ [][PathNext]_vars

(***************************************************************************)
(* _parse_album_info_advanced                                              *)
(*                                                                         *)
(* A text is a sequence of lines, a line a sequence of words separated by  *)
(* one blank, a word a sequence of pieces: <<"a">> a plain word, <<"-">> a *)
(* hyphen standing alone, <<"1999">> a four digit number,                  *)
(* <<"(", "1969", ")">> a year in parentheses, <<"1", ".">> a track        *)
(* number.                                                                 *)
(***************************************************************************)

\* the pieces that \b(19|20)\d{2}\b of line 415 matches
YearPieces == {"1969", "1999", "2001"}

\* the pieces made of digits only
DigitPieces == YearPieces \cup {"1", "2"}

Hyphen == <<"-">>

InParentheses(year) == <<"(", year, ")">>

RECURSIVE Flatten(_)
Flatten(seqs) ==
    IF seqs = <<>> THEN <<>> ELSE Head(seqs) \o Flatten(Tail(seqs))

\* the index of the first ' - ' of a line: a hyphen with a word on each side
FirstSeparator(line) ==
    LET at == {i \in 2..(Len(line) - 1) : line[i] = Hyphen}
    IN  IF at = {} THEN 0 ELSE CHOOSE i \in at : \A j \in at : i <= j

\* lines 400-413: the first line with ' - ' gives artist and album_name, the
\* line being split at its first ' - '
RECURSIVE ArtistAlbum(_)
ArtistAlbum(lines) ==
    IF lines = <<>> THEN [artist |-> <<>>, album_name |-> <<>>]
    ELSE LET line == Head(lines)
             i == FirstSeparator(line)
         IN  IF i # 0
               THEN [artist |-> SubSeq(line, 1, i - 1),
                     album_name |-> SubSeq(line, i + 1, Len(line))]
               ELSE ArtistAlbum(Tail(lines))

\* lines 415-419: re.search over the whole text, the first match
FirstYear(text) ==
    LET pieces == Flatten(Flatten(text))
        at == {i \in DOMAIN pieces : pieces[i] \in YearPieces}
    IN  IF at = {} THEN ""
        ELSE pieces[CHOOSE i \in at : \A j \in at : i <= j]

\* line 422, ^(\d+[\.\-\s]+.+)$: digits, then a dot, hyphen or blank, then
\* something more
IsTrackLine(line) ==
    /\ Len(line) >= 2
    /\ \/ Head(line) \in {<<d, ".">> : d \in DigitPieces}
       \/ Head(line) \in {<<d>> : d \in DigitPieces}

\* lines 375-454, the fields artist, album_name, year and track_list
ParseAlbumInfoAdvanced(text) ==
    [artist |-> ArtistAlbum(text).artist,
     album_name |-> ArtistAlbum(text).album_name,
     year |-> FirstYear(text),
     track_list |-> SelectSeq(text, IsTrackLine)]

RECURSIVE SeqsUpTo(_, _)
SeqsUpTo(S, n) ==
    IF n = 0 THEN {<<>>}
    ELSE LET shorter == SeqsUpTo(S, n - 1)
         IN  shorter \cup {Append(q, x) : q \in shorter, x \in S}

\* artist names: one to MaxWords words
ArtistNames == SeqsUpTo({<<"a">>, <<"1999">>}, MaxWords) \ {<<>>}

\* album names: the same, or a name that holds a ' - ' itself
AlbumNames == ArtistNames \cup {<< <<"a">>, Hyphen, <<"a">> >>}

TrackLines == {<< <<"1", ".">>, <<"a">> >>, << <<"2", ".">>, <<"a">> >>}

\* '<artist> - <album> (<year>)' followed by the numbered track lines
AlbumText(input) ==
    << input.artist \o <<Hyphen>> \o input.album
          \o <<InParentheses(input.year)>> >> \o input.tracks

ParseInit ==
    /\ q_input \in [artist : ArtistNames, album : AlbumNames,
                     year : {"1969", "2001"},
                     tracks : SeqsUpTo(TrackLines, MaxTracks) \ {<<>>}]
    /\ q_text = AlbumText(q_input)
    /\ q_info = <<>>
    /\ q_pc = "call"
    /\ HistIdle
    /\ ArchIdle
    /\ PathIdle
    /\ MetaIdle
    /\ PoolIdle

\* _process_history_message, line 330
PParse ==
    /\ q_pc = "call"
    /\ q_info' = ParseAlbumInfoAdvanced(q_text)
    /\ q_pc' = "done"
    /\ UNCHANGED <<histVars, archVars, pathVars, metaVars, poolVars, q_input, q_text>>

ParseNext == PParse

ParseSpec == ParseInit /\ [][ParseNext]_vars

(***************************************************************************)
(* The metadata of a track: extract_track_info, then organize_track        *)
(*                                                                         *)
(* A title, artist or album is a sequence of words, <<>> the empty string. *)
(***************************************************************************)

\* str.lower() of a word
Lower(word) == IF word = "Remix" THEN "remix" ELSE word

\* side_b_keywords, lines 379-382
SideBKeywords ==
    {"side b", "b-side", "bside", "flip", "instrumental", "remix", "version",
     "alternate", "demo", "unreleased"}

\* determine_side, lines 373-388
DetermineSide(title, album) ==
    IF \E k \in SideBKeywords :
          \/ k \in {Lower(title[i]) : i \in DOMAIN title}
          \/ k \in {Lower(album[i]) : i \in DOMAIN album}
      THEN "Side B"
      ELSE "Side A"

\* a or b of two strings: the first that is not empty
Or(a, b) == IF a # <<>> THEN a ELSE b

Titles == {<<>>, <<"love">>, <<"song">>, <<"song", "Remix">>}

Artists == {<<>>, <<"abba">>, <<"queen">>}

Albums == {<<>>, <<"hits">>, <<"hits", "Remix">>}

\* extract_track_info, lines 519-559: the attribute of the message, the
\* parsed text first
ExtractMetadata(message) ==
    LET final_title == Or(message.parsed.title, Or(message.attr.title, <<"Track_id">>))
        final_artist == Or(message.parsed.artist,
                           Or(message.attr.performer, <<"Unknown Artist">>))
        final_album == Or(message.parsed.album, <<"Unknown Album">>)
    IN  [title |-> final_title, artist |-> final_artist, album |-> final_album,
         side |-> DetermineSide(final_title, final_album)]

\* organize_track, lines 664-673: a tag of the file that is not empty
\* replaces the value of the track
OrganizeMetadata(track, tags) ==
    [track EXCEPT !.title = Or(tags.title, @),
                  !.artist = Or(tags.artist, @),
                  !.album = Or(tags.album, @)]

MetaInit ==
    /\ m_message \in [parsed : [title : Titles, artist : Artists, album : Albums],
                       attr : [title : Titles, performer : Artists],
                       tags : [title : Titles, artist : Artists, album : Albums]]
    /\ m_track = <<>>
    /\ m_row = <<>>
    /\ m_pc = "extract"
    /\ HistIdle
    /\ ArchIdle
    /\ PathIdle
    /\ ParseIdle
    /\ PoolIdle

\* extract_track_info, and save_track_to_db of process_batch (line 573)
MExtract ==
    /\ m_pc = "extract"
    /\ m_track' = ExtractMetadata(m_message)
    /\ m_row' = ExtractMetadata(m_message)
    /\ m_pc' = "organize"
    /\ UNCHANGED <<histVars, archVars, pathVars, parseVars, poolVars, m_message>>

\* organize_track with its update_track_in_db (line 687)
MOrganize ==
    /\ m_pc = "organize"
    /\ m_track' = OrganizeMetadata(m_track, m_message.tags)
    /\ m_row' = OrganizeMetadata(m_track, m_message.tags)
    /\ m_pc' = "done"
    /\ UNCHANGED <<histVars, archVars, pathVars, parseVars, poolVars, m_message>>

MetaNext ==
    \/ MExtract
    \/ MOrganize

MetaSpec == MetaInit /\ [][MetaNext]_vars

(***************************************************************************)
(* The download tasks of process_batch                                     *)
(*                                                                         *)
(* process_batch submits download_track for every track of the batch to    *)
(* the ThreadPoolExecutor; the driver takes the finished tasks with        *)
(* as_completed and organizes their tracks while the other tasks run.      *)
(* Nothing in the code is a lock. The position of a task names the call    *)
(* it is in.                                                               *)
(***************************************************************************)

otherVars == <<histVars, archVars, pathVars, parseVars, metaVars>>

Running == {"check", "download", "update", "skip_update", "fail_update",
            "stat_read", "stat_write", "fstat_read", "fstat_write"}

\* the positions in which a task writes the raw file of its track
\* (download_media) or the state and the store record of its track
\* (lines 599-601, 618-620, 629-630)
Writing == {"download", "update", "skip_update", "fail_update"}

PoolInit ==
    /\ \E n \in 1..MaxPoolBatch : w_batch \in [1..n -> FileIds]
    /\ w_pc = [i \in DOMAIN w_batch |-> "queued"]
    /\ w_reg = [i \in DOMAIN w_batch |-> 0]
    /\ w_raw \in SUBSET FileIds
    /\ w_rows = [f \in FileIds |-> "pending"]
    /\ w_stats = [successful_downloads |-> 0, failed_operations |-> 0]
    /\ w_fresh = 0
    /\ w_failed = 0
    /\ d_cur = 0
    /\ HistIdle
    /\ ArchIdle
    /\ PathIdle
    /\ ParseIdle
    /\ MetaIdle

\* a worker thread of the pool takes the task: at most max_workers run
WStart(i) ==
    /\ w_pc[i] = "queued"
    /\ Cardinality({j \in DOMAIN w_pc : w_pc[j] \in Running}) < MAX_CONCURRENT_DOWNLOADS
    /\ w_pc' = [w_pc EXCEPT ![i] = "check"]
    /\ UNCHANGED <<otherVars, w_batch, w_reg, w_raw, w_rows, w_stats, w_fresh,
                   w_failed, d_cur>>

\* lines 595-598: raw_path.exists()
WCheck(i) ==
    /\ w_pc[i] = "check"
    /\ w_pc' = [w_pc EXCEPT ![i] = IF w_batch[i] \in w_raw THEN "skip_update"
                                                           ELSE "download"]
    /\ UNCHANGED <<otherVars, w_batch, w_reg, w_raw, w_rows, w_stats, w_fresh,
                   w_failed, d_cur>>

\* lines 604-616: download_media returns with the raw file written, or raises
WDownload(i) ==
    /\ w_pc[i] = "download"
    /\ \E ok \in BOOLEAN :
        IF ok
          THEN /\ w_raw' = w_raw \cup {w_batch[i]}
               /\ w_fresh' = w_fresh + 1
               /\ w_pc' = [w_pc EXCEPT ![i] = "update"]
               /\ UNCHANGED w_failed
          ELSE /\ w_failed' = w_failed + 1
               /\ w_pc' = [w_pc EXCEPT ![i] = "fail_update"]
               /\ UNCHANGED <<w_raw, w_fresh>>
    /\ UNCHANGED <<otherVars, w_batch, w_reg, w_rows, w_stats, d_cur>>

\* lines 599-602, 618-620, 629-630: the state of the track is set and
\* update_track_in_db returns
WUpdate(i) ==
    /\ w_pc[i] \in {"update", "skip_update", "fail_update"}
    /\ w_rows' = [w_rows EXCEPT ![w_batch[i]] =
                      IF w_pc[i] = "fail_update" THEN "failed" ELSE "downloaded"]
    /\ w_pc' = [w_pc EXCEPT ![i] = CASE w_pc[i] = "update" -> "stat_read"
                                     [] w_pc[i] = "skip_update" -> "ok"
                                     [] OTHER -> "fstat_read"]
    /\ UNCHANGED <<otherVars, w_batch, w_reg, w_raw, w_stats, w_fresh, w_failed,
                   d_cur>>

\* lines 621 and 631, self.stats[...] += 1: the counter is read
WStatRead(i) ==
    /\ w_pc[i] \in {"stat_read", "fstat_read"}
    /\ w_reg' = [w_reg EXCEPT ![i] = IF w_pc[i] = "stat_read"
                                      THEN w_stats.successful_downloads
                                      ELSE w_stats.failed_operations]
    /\ w_pc' = [w_pc EXCEPT ![i] = IF w_pc[i] = "stat_read" THEN "stat_write"
                                                            ELSE "fstat_write"]
    /\ UNCHANGED <<otherVars, w_batch, w_raw, w_rows, w_stats, w_fresh, w_failed,
                   d_cur>>

\* lines 621 and 631, self.stats[...] += 1: the sum is stored; the task ends
WStatWrite(i) ==
    /\ w_pc[i] \in {"stat_write", "fstat_write"}
    /\ w_stats' = IF w_pc[i] = "stat_write"
                   THEN [w_stats EXCEPT !.successful_downloads = w_reg[i] + 1]
                   ELSE [w_stats EXCEPT !.failed_operations = w_reg[i] + 1]
    /\ w_pc' = [w_pc EXCEPT ![i] = IF w_pc[i] = "stat_write" THEN "ok" ELSE "failed"]
    /\ UNCHANGED <<otherVars, w_batch, w_reg, w_raw, w_rows, w_fresh, w_failed,
                   d_cur>>

\* lines 582-587: as_completed yields a finished task; for a track that was
\* downloaded the driver enters process_downloaded_track
DResult(i) ==
    /\ d_cur = 0
    /\ w_pc[i] \in {"ok", "failed"}
    /\ w_pc' = [w_pc EXCEPT ![i] = "consumed"]
    /\ d_cur' = IF w_pc[i] = "ok" THEN i ELSE 0
    /\ UNCHANGED <<otherVars, w_batch, w_reg, w_raw, w_rows, w_stats, w_fresh,
                   w_failed>>

\* organize_track in the driver: the raw file is moved away and the track is
\* stored, or the raw file is missing (lines 658-659)
DOrganize ==
    /\ d_cur # 0
    /\ w_raw' = w_raw \ {w_batch[d_cur]}
    /\ w_rows' = IF w_batch[d_cur] \in w_raw
                  THEN [w_rows EXCEPT ![w_batch[d_cur]] = "organized"]
                  ELSE w_rows
    /\ d_cur' = 0
    /\ UNCHANGED <<otherVars, w_batch, w_pc, w_reg, w_stats, w_fresh, w_failed>>

PoolNext ==
    \/ \E i \in DOMAIN w_pc : WStart(i)
    \/ \E i \in DOMAIN w_pc : WCheck(i)
    \/ \E i \in DOMAIN w_pc : WDownload(i)
    \/ \E i \in DOMAIN w_pc : WUpdate(i)
    \/ \E i \in DOMAIN w_pc : WStatRead(i)
    \/ \E i \in DOMAIN w_pc : WStatWrite(i)
    \/ \E i \in DOMAIN w_pc : DResult(i)
    \/ DOrganize

PoolSpec == PoolInit /\ [][PoolNext]_vars
(***************************************************************************)
(* C1: a scan interrupted after a checkpoint was written and restarted     *)
(* with resumption enabled collects, in the resumed scan, every audio      *)
(* message that had not been collected before the interruption.            *)
(***************************************************************************)
C1_ResumeCollectsEveryUncollected ==
    ( /\ hpc = "done"
      /\ h_run > 1
      /\ h_prev_end = "killed"
      /\ h_config.RESUME_FROM_CHECKPOINT
      /\ h_start_checkpoint # <<>>
      /\ h_start_checkpoint[1].channel_username = h_channel
      /\ h_config.START_DATE = 0
      /\ h_config.END_DATE = 0 )
    => h_audio \subseteq (h_collected_before[h_channel] \cup Range(all_posts))

(***************************************************************************)
(* C2: with resumption enabled and a stored checkpoint whose               *)
(* last_message_id is N the iterator gets min_id = N and no message with   *)
(* id <= N is processed in the run; without a checkpoint, or with          *)
(* resumption disabled, min_id is 0 and the count starts at 0.             *)
(***************************************************************************)
C2_ResumePoint ==
    hpc \notin {"start", "killed", "entity_raised", "entity_flood_raised"} =>
        IF h_config.RESUME_FROM_CHECKPOINT /\ h_start_checkpoint # <<>>
          THEN /\ start_from_id = h_start_checkpoint[1].last_message_id
               /\ \A m \in h_seen : m > h_start_checkpoint[1].last_message_id
          ELSE /\ start_from_id = 0
               /\ h_start_count = 0

C2_Witness ==
    /\ hpc = "done"
    /\ h_config.RESUME_FROM_CHECKPOINT
    /\ h_start_checkpoint # <<>>
    /\ h_start_checkpoint[1].last_message_id = 2
    /\ h_seen = {3}

(***************************************************************************)
(* Properties of the archiver                                              *)
(***************************************************************************)

AudioIds == {id \in DOMAIN a_channel : IsAudioMessage(a_channel[id])}

Count(seq, x) == Cardinality({i \in 1..Len(seq) : seq[i] = x})

RowsOf(f) == {r \in music_tracks : r.file_id = f}

\* the rows stored for the file of message id
RowsOfMessage(id) == RowsOf(a_channel[id].file_id)

(***************************************************************************)
(* C3: when process_channel_history completes without raising, every       *)
(* audio message of the channel has been passed to process_batch at least  *)
(* once, whatever the batch size and whatever rate-limit waits or          *)
(* per-message errors occurred.                                            *)
(***************************************************************************)
C3_AtLeastOnce ==
    spc = "returned" => AudioIds \subseteq passed

C3_Witness ==
    /\ spc = "returned"
    /\ a_config.batch_size = 2
    /\ floods = 1
    /\ scans[NumMsgs] = 2
    /\ \E id \in DOMAIN a_channel : IsAudioRaises(a_channel[id])
    /\ Cardinality(AudioIds) = 2
    /\ AudioIds \subseteq passed

C5_SinksHoldNoDuplicate ==
    \A f \in FileIds :
        /\ Count(drive_files, f) <= 1
        /\ Count(airtable_records, f) <= 1
        /\ Count(sheet_rows, f) <= 1

(***************************************************************************)
(* C6: the processing_status of every track, in memory and in the store,   *)
(* is one of pending, downloaded, organized, uploaded, synced, forwarded,  *)
(* failed.                                                                 *)
(***************************************************************************)
Statuses ==
    {"pending", "downloaded", "organized", "uploaded", "synced", "forwarded",
     "failed"}

C7_StatusAdvancesWithEachSink ==
    (a_event.outcome = "ok" /\ a_event.msg \in DOMAIN a_channel) =>
        \A r \in RowsOfMessage(a_event.msg) :
            /\ a_event.op = "upload" =>
                  r.processing_status = "uploaded" /\ r.gdrive_url # 0
            /\ (a_event.op = "sync_sheets" /\ r.gdrive_url # 0 /\ r.airtable_id # 0) =>
                  r.processing_status = "synced" /\ r.sheets_row # 0
            /\ (a_event.op = "forward" /\ r.gdrive_url # 0 /\ r.airtable_id # 0
                    /\ r.sheets_row # 0) =>
                  r.processing_status = "forwarded" /\ r.forwarded_date # 0

(***************************************************************************)
(* C8: when a sink dispatch fails (Drive upload, Airtable sync, Sheets     *)
(* sync, forward) the stored status of the item becomes failed and the     *)
(* external references stored for it keep their values.                    *)
(***************************************************************************)
C8_FailedDispatchMarksFailed ==
    [][ ( /\ a_event'.outcome = "fail"
          /\ a_event'.op \in {"upload", "sync_airtable", "sync_sheets", "forward"} )
        => LET f == a_channel[a_event'.msg].file_id IN
            /\ \A r \in {x \in music_tracks' : x.file_id = f} :
                  r.processing_status = "failed"
            /\ \A old \in RowsOf(f) : \A new \in {x \in music_tracks' : x.file_id = f} :
                  /\ old.gdrive_url # 0 => new.gdrive_url = old.gdrive_url
                  /\ old.airtable_id # 0 => new.airtable_id = old.airtable_id
                  /\ old.sheets_row # 0 => new.sheets_row = old.sheets_row
      ]_vars

(***************************************************************************)
(* C9: process_batch attempts every track of the batch and returns         *)
(* normally: it never raises, and when it returns every download was       *)
(* waited for and every downloaded track went through organize_track.      *)
(***************************************************************************)
C9_BatchNeverAborts ==
    /\ a_event # Event("process_batch", 0, "raise")
    /\ (bpc = "wait" /\ \A i \in DOMAIN tasks : tasks[i] = "consumed") =>
          \A i \in DOMAIN batch :
              \/ batch[i].processing_status \in {"failed", "organized", "uploaded"}
              \/ batch[i].file_id \notin raw_files

(***************************************************************************)
(* C10: after the wait for a FloodWaitError the scan resumes with the      *)
(* message that was being fetched when the signal came, and no message     *)
(* that was already handled is handled a second time.                      *)
(***************************************************************************)
C10_FloodResumesAtSameMessage ==
    /\ (a_event.op = "get_entity" /\ floods > 0 /\ flood_at # 0) =>
          Head(a_iterator) = flood_at
    /\ \A id \in DOMAIN scans : scans[id] <= 1


(***************************************************************************)
(* C11: in scrape_channel_history a rate-limit signal (FloodWaitError) of  *)
(* the source, at any point of the scan and also while the iterator        *)
(* fetches the next message, is waited out and the scan continues: no scan *)
(* ever ends with the rate-limit error raised to its caller. Stated for    *)
(* the rate-limit signal that comes while the iterator fetches.            *)
(***************************************************************************)
C11_FloodNeverEndsScan ==
    hpc # "flood_raised"

C13_CheckpointOfSameChannel ==
    ( /\ hpc \notin {"start", "entity_raised", "entity_flood_raised"}
      /\ (start_from_id # 0 \/ h_start_count # 0) )
    => /\ h_start_checkpoint # <<>>
       /\ h_start_checkpoint[1].channel_username = h_channel

(***************************************************************************)
(* C14: once the stored forwarded_date of a file_id is set, every later    *)
(* operation on the store leaves a row of that file_id with the same       *)
(* forwarded_date, also when a later scan sees the message again and saves *)
(* its track anew.                                                         *)
(***************************************************************************)
C14_ForwardedDateKept ==
    [][\A r \in music_tracks :
          r.forwarded_date # 0 =>
              \E q \in music_tracks' :
                  /\ q.file_id = r.file_id
                  /\ q.forwarded_date = r.forwarded_date]_vars

(***************************************************************************)
(* C15: a write of save_track_to_db / update_track_in_db that fails        *)
(* because the store is unavailable is raised to the caller of the write:  *)
(* process_batch never goes on past its saves (to the submission of the    *)
(* downloads) with a track of the batch that has no row in the store.      *)
(***************************************************************************)
C15_StoreFailurePropagates ==
    (a_event.op = "process_batch" /\ a_event.outcome = "saved") =>
        \A i \in DOMAIN batch : RowsOf(batch[i].file_id) # {}

(***************************************************************************)
(* C16: every execution of run_automation that ends, by completion or by   *)
(* an error raised to its caller, has emitted the summary of processing    *)
(* counts of get_processing_stats as its last step.                        *)
(***************************************************************************)
C16_SummaryAlwaysEmitted ==
    apc \in {"done", "failed"} =>
        a_event = Event("get_processing_stats", 0, "ok")

(***************************************************************************)
(* C17: when a run started by the run script was interrupted after it had  *)
(* saved a checkpoint, the next run of the same script for the same        *)
(* channel loads that checkpoint and resumes from its last_message_id      *)
(* instead of message id 0.                                                *)
(***************************************************************************)
C17_ScriptRerunResumes ==
    ( /\ hpc \notin {"start", "entity_raised", "entity_flood_raised"}
      /\ h_script
      /\ h_prev_end = "killed"
      /\ h_prev_checkpoint # <<>>
      /\ h_prev_checkpoint[1].channel_username = h_channel )
    => start_from_id = h_prev_checkpoint[1].last_message_id

(***************************************************************************)
(* C18: with START_DATE and / or END_DATE configured no message dated      *)
(* before START_DATE or after END_DATE is collected; with both set the     *)
(* window [START_DATE, END_DATE] applies.                                  *)
(***************************************************************************)
C18_DateWindow ==
    \A m \in Range(all_posts) :
        /\ h_config.START_DATE # 0 => MessageDate(m) >= h_config.START_DATE
        /\ h_config.END_DATE # 0 => MessageDate(m) <= h_config.END_DATE

(***************************************************************************)
(* C19: is_audio_message returns true exactly for a message that carries a *)
(* document with an audio MIME type or an audio attribute; for a message   *)
(* without media, or with a document attachment whose document is absent,  *)
(* it returns false and never raises.                                      *)
(***************************************************************************)
C19_IsAudioTotal ==
    (a_event.op = "message" /\ a_event.msg \in DOMAIN a_channel) =>
        /\ a_event.outcome = "ok"
        /\ a_event.msg \in passed => IsAudioMessage(a_channel[a_event.msg])

(***************************************************************************)
(* C20: for every artist, album, year and title no segment of the path     *)
(* organize_file_path returns below the organized directory holds a        *)
(* control character or one of < > : " / \ | ? *, and an artist or album   *)
(* that is empty after sanitization appears as 'Unknown Artist' or         *)
(* 'Unknown Album'.                                                        *)
(***************************************************************************)
C20_PathSegmentsClean ==
    p_pc = "done" =>
        /\ \A i \in DOMAIN p_path : \A j \in DOMAIN p_path[i] :
               p_path[i][j] \notin ReservedChars \cup ControlChars
        /\ SanitizeName(p_track.artist) = <<>> => p_path[1][1] = "Unknown Artist"
        /\ SanitizeName(p_track.album) = <<>> =>
               \E i \in DOMAIN p_path : \E j \in DOMAIN p_path[i] :
                   p_path[i][j] = "Unknown Album"

(***************************************************************************)
(* C21: for a text whose first line is '<artist> - <album> (<year>)',      *)
(* followed by numbered track lines, _parse_album_info_advanced returns    *)
(* the artist, the album without the year in parentheses, the year, and    *)
(* the numbered lines in their order as track_list.                        *)
(***************************************************************************)
C21_ParsesAlbumLine ==
    q_pc = "done" =>
        /\ q_info.artist = q_input.artist
        /\ q_info.album_name = q_input.album
        /\ q_info.year = q_input.year
        /\ q_info.track_list = q_input.tracks

(***************************************************************************)
(* C22: whenever scrape_channel_history has persisted a checkpoint with    *)
(* last_message_id m, every post this run collected up to and including    *)
(* message m is in a batch file: after a full batch, at the end of the     *)
(* scan and on the error path.                                             *)
(***************************************************************************)
BatchFilePosts == UNION {Range(batch_files[n]) : n \in DOMAIN batch_files}

C22_CheckpointCoversSavedPosts ==
    ( /\ hpc \notin {"start", "entity_raised", "entity_flood_raised"}
      /\ checkpoint_file # <<>>
      /\ checkpoint_file # h_start_checkpoint )
    => \A k \in DOMAIN all_posts :
          all_posts[k] = checkpoint_file[1].last_message_id =>
              {all_posts[i] : i \in 1..k} \subseteq BatchFilePosts

(***************************************************************************)
(* C23: a stored checkpoint whose config_hash differs from the fingerprint *)
(* of the active configuration is invalidated: the scan takes its          *)
(* resumption point (min_id, starting count) from a checkpoint only when   *)
(* the fingerprints agree.                                                 *)
(***************************************************************************)
C23_StaleCheckpointInvalidated ==
    ( /\ hpc \notin {"start", "entity_raised", "entity_flood_raised"}
      /\ (start_from_id # 0 \/ h_start_count # 0) )
    => /\ h_start_checkpoint # <<>>
       /\ h_start_checkpoint[1].config_hash = ConfigHash(h_config, h_output_dir)

(***************************************************************************)
(* C24: whenever a track is written to the store its side is what          *)
(* determine_side gives for its current title and album, also after        *)
(* organize_track replaced the title or album by the tags of the file.     *)
(***************************************************************************)
C24_SideFollowsTitleAlbum ==
    m_pc \in {"organize", "done"} =>
        m_row.side = DetermineSide(m_row.title, m_row.album)

(***************************************************************************)
(* C25: when the message text yields a title (an artist) that is not       *)
(* empty, the title (artist) stored when the pass is finished is the       *)
(* parsed one, whatever the audio attribute of the message and the tags of *)
(* the file hold.                                                          *)
(***************************************************************************)
C25_ParsedTextHasPriority ==
    m_pc = "done" =>
        /\ m_message.parsed.title # <<>> => m_row.title = m_message.parsed.title
        /\ m_message.parsed.artist # <<>> => m_row.artist = m_message.parsed.artist

(***************************************************************************)
(* C27: after run_automation caught a FloodWaitError of the automation     *)
(* level, the next iteration of its loop runs with the tracking database   *)
(* open and the worker pool usable.                                        *)
(***************************************************************************)
C27_RetryHasDatabaseAndPool ==
    (init_floods > 0 /\ apc \in {"init_clients", "scan"}) =>
        db_open /\ executor_up

(***************************************************************************)
(* C28: whenever process_channel_history calls process_batch, the batch    *)
(* holds at most batch_size tracks and none that an earlier call of the    *)
(* same scan pass received. (Without a rate-limit restart of the scan the  *)
(* run has one scan pass, whose calls `passed` records.)                   *)
(***************************************************************************)
C28_BatchBoundedAndFresh ==
    (bpc = "save" /\ floods = 0) =>
        /\ Len(batch) <= a_config.batch_size
        /\ \A i \in DOMAIN batch : batch[i].message_id \notin passed

(***************************************************************************)
(* C29: a stored track whose processing_status is 'uploaded' has a         *)
(* gdrive_url, and stats['successful_uploads'] is the number of uploads    *)
(* that succeeded (the files created in Drive).                            *)
(***************************************************************************)
C29_UploadedMeansInDrive ==
    /\ \A r \in music_tracks :
          r.processing_status = UploadedStatus => r.gdrive_url # 0
    /\ stats.successful_uploads = Len(drive_files)

(***************************************************************************)
(* C26: during process_batch no two threads, pool workers or the driver,   *)
(* write at the same time the state, the raw file or the store record of   *)
(* the same file_id, also when two tracks of the batch have one file_id.   *)
(***************************************************************************)
C26_WritesSerializedPerFileId ==
    /\ \A i, j \in DOMAIN w_pc :
          (i # j /\ w_batch[i] = w_batch[j]) =>
              ~(w_pc[i] \in Writing /\ w_pc[j] \in Writing)
    /\ \A i \in DOMAIN w_pc :
          (d_cur # 0 /\ w_batch[i] = w_batch[d_cur]) => w_pc[i] \notin Writing

(***************************************************************************)
(* C30: when process_batch has completed, under every interleaving of the  *)
(* download tasks, stats['successful_downloads'] has grown by the number   *)
(* of tracks that were freshly downloaded with success and                 *)
(* stats['failed_operations'] by the number whose download failed.         *)
(***************************************************************************)
C30_NoLostIncrement ==
    (w_pc # <<>> /\ d_cur = 0 /\ \A i \in DOMAIN w_pc : w_pc[i] = "consumed") =>
        /\ w_stats.successful_downloads = w_fresh
        /\ w_stats.failed_operations = w_failed

=============================================================================
